---- MODULE Spec2Model ----
(***************************************************************************)
(* The batch estimation pipeline of src/main.py: process_file splits the   *)
(* uploaded company list into chunk jobs, every job runs                   *)
(* process_company_batch, which resolves each company through two          *)
(* retry-wrapped backend stages (analyze_search_results, then the direct   *)
(* estimate), reviews the estimate, records the outcome and updates the    *)
(* shared progress hash in Redis; get_status and get_results read it.      *)
(***************************************************************************)
EXTENDS Integers, Sequences, FiniteSets, TLC

\* ------------------------------------------------------------------ bounds

\* Companies per chunk job.  The program uses 50 (src/main.py:660); the
\* model scales the chunk size down so that multi-chunk batches stay small.
BatchSize == 2

\* Largest uploaded list: one full chunk plus one company in a second chunk.
MaxCompanies == BatchSize + 1

\* Requests the caller sends to get_status and get_results.
MaxRequests == 1

\* ------------------------------------------------------- program constants

\* stop=stop_after_attempt(3)
MaxAttempts == 3

\* ------------------------------------------------------------------ values

\* Python's None, and a local variable that was never assigned.
None == [t |-> "None"]
Unbound == [t |-> "unbound"]
IntVal(n) == [t |-> "int", v |-> n]
IsInt(x) == x.t = "int"

\* The uploaded list: company k of the list is CompanyName(k).  Names are
\* lower-case and have neither spaces nor dots.
CompanyName(k) ==
    IF k = 1 THEN "google" ELSE IF k = 2 THEN "grab" ELSE "acme"

\* country.lower() of the form field.
Countries == {"malaysia", "singapore"}

\* The employee_count values a backend answer may carry (the functions
\* schema asks for an integer; the code validates it, so null is possible).
AnswerCounts == {None, IntVal(10), IntVal(700)}

\* json.loads(function_call.arguments) of a backend answer.
Answers ==
    { [employee_count |-> c, confidence |-> "HIGH", sources |-> <<>>,
       explanation |-> <<>>] : c \in AnswerCounts }

\* What one openai.ChatCompletion.create call can do: raise RateLimitError,
\* raise another exception, answer without function_call, or answer with it.
NoFunctionCall == [t |-> "response", function_call |-> FALSE]
WithFunctionCall(a) == [t |-> "response", function_call |-> TRUE, arguments |-> a]
BackendOutcomes ==
    { [t |-> "RateLimitError"], [t |-> "Exception"], NoFunctionCall }
        \cup { WithFunctionCall(a) : a \in Answers }

\* The office locations search_web_info's text may mention.
WebInfos == { {}, {"cyberjaya"} }

\* The store-backed specification follows several chunk jobs at once and
\* draws the backend's behaviour from a smaller set: a call fails or
\* answers with one valid count.
AsyncBackendOutcomes ==
    { [t |-> "RateLimitError"], [t |-> "Exception"],
      WithFunctionCall([employee_count |-> IntVal(700), confidence |-> "HIGH",
                        sources |-> <<>>, explanation |-> <<>>]) }
AsyncWebInfos == { {} }

\* ---------------------------------------------- validate_employee_count

\* A str value, character by character.
Text(chars) == [t |-> "text", chars |-> chars]

\* str.isdigit() of one character, and the value of a decimal digit.
isdigit(c) == c \in {"0", "1", "2", "3", "4", "5", "6", "7", "8", "9"}
digit_value(c) ==
    CASE c = "0" -> 0 [] c = "1" -> 1 [] c = "2" -> 2 [] c = "3" -> 3
      [] c = "4" -> 4 [] c = "5" -> 5 [] c = "6" -> 6 [] c = "7" -> 7
      [] c = "8" -> 8 [] c = "9" -> 9

\* int() of a string of decimal digits; the empty string counts 0 here
\* (the integer part of a float written as ".5").
RECURSIVE int_of_digits(_)
int_of_digits(digits) ==
    IF digits = <<>> THEN 0
    ELSE int_of_digits(SubSeq(digits, 1, Len(digits) - 1)) * 10
             + digit_value(digits[Len(digits)])

\* cleaned = ''.join(c for c in count if c.isdigit() or c == '.')
cleaned_of(count) == SelectSeq(count, LAMBDA c : isdigit(c) \/ c = ".")

\* float(cleaned) succeeds on digits with at most one dot among them and at
\* least one digit; anything else raises ValueError.
float_parses(cleaned) ==
    /\ Cardinality({k \in 1..Len(cleaned) : cleaned[k] = "."}) <= 1
    /\ \E k \in 1..Len(cleaned) : isdigit(cleaned[k])

\* int(float(cleaned)): the digits before the dot.  (Exact below 2^53,
\* which the bounded texts stay far under.)
int_of_float(cleaned) ==
    LET dots == {k \in 1..Len(cleaned) : cleaned[k] = "."}
        stop == IF dots = {} THEN Len(cleaned) + 1 ELSE CHOOSE k \in dots : TRUE
    IN  int_of_digits(SubSeq(cleaned, 1, stop - 1))

\* re.findall(r'\d+', count)[0]: the first maximal run of digits;
\* the empty sequence when count has no digit.
first_digit_run(count) ==
    LET starts == {k \in 1..Len(count) : isdigit(count[k])}
    IN  IF starts = {} THEN <<>>
        ELSE LET s == CHOOSE k \in starts : \A m \in starts : k <= m
                 e == CHOOSE k \in s..Len(count) :
                          /\ \A m \in s..k : isdigit(count[m])
                          /\ (k = Len(count) \/ ~isdigit(count[k + 1]))
             IN  SubSeq(count, s, e)

\* None stays None and an int stays itself (lines 368-372).  A str is
\* reduced to its digits and dots (376); when that is not empty, it is read
\* as a float and truncated (380-382), and when float() raises, the first
\* run of digits of the original string is taken (383-389).  The answers
\* drawn from Answers carry None or an int; the string branch is exercised
\* by SpecText.
validate_employee_count(count) ==
    IF count = None THEN None
    ELSE IF IsInt(count) THEN count
    ELSE IF count.t = "text"
    THEN LET cleaned == cleaned_of(count.chars)
         IN  IF cleaned = <<>> THEN None
             ELSE IF float_parses(cleaned) THEN IntVal(int_of_float(cleaned))
             ELSE IF first_digit_run(count.chars) # <<>>
             THEN IntVal(int_of_digits(first_digit_run(count.chars)))
             ELSE None
    ELSE None

\* ------------------------------------------------- review_employee_count

\* company_variations: lower-cased, without spaces, without dots.  The
\* model's names are already in that form, so the three coincide.
company_variations(company) == {company}

mnc_companies == {"google", "meta", "facebook", "amazon", "microsoft", "apple"}
regional_tech == {"grab", "shopee", "lazada", "sea", "gojek", "tokopedia", "goto"}

company_type(company) ==
    IF company_variations(company) \cap mnc_companies # {} THEN "mnc"
    ELSE IF company_variations(company) \cap regional_tech # {} THEN "regional"
    ELSE "local"

\* country_patterns[country][company_type]["ranges"], in the dict's order;
\* the table has an entry for malaysia only, every other country gets {}.
ranges(country, ctype) ==
    IF country # "malaysia" THEN <<>>
    ELSE IF ctype = "mnc" THEN
        << [category |-> "small", min_val |-> 100, max_val |-> 500],
           [category |-> "medium", min_val |-> 500, max_val |-> 1000],
           [category |-> "large", min_val |-> 1000, max_val |-> 2000] >>
    ELSE IF ctype = "regional" THEN
        << [category |-> "small", min_val |-> 500, max_val |-> 1000],
           [category |-> "medium", min_val |-> 1000, max_val |-> 2000],
           [category |-> "large", min_val |-> 2000, max_val |-> 5000] >>
    ELSE
        << [category |-> "small", min_val |-> 50, max_val |-> 200],
           [category |-> "medium", min_val |-> 200, max_val |-> 1000],
           [category |-> "large", min_val |-> 1000, max_val |-> 3000] >>

\* country_patterns[country]["mnc"]["locations"], in the dict's order.
locations(country, ctype) ==
    IF country = "malaysia" /\ ctype = "mnc" THEN
        << [location |-> "klcc", upper |-> "KLCC", expected_size |-> "medium"],
           [location |-> "bangsar", upper |-> "BANGSAR", expected_size |-> "medium"],
           [location |-> "cyberjaya", upper |-> "CYBERJAYA", expected_size |-> "large"],
           [location |-> "penang", upper |-> "PENANG", expected_size |-> "medium"] >>
    ELSE <<>>

home_markets(company) ==
    IF company \in {"grab", "shopee", "lazada", "sea"} THEN "singapore"
    ELSE IF company \in {"gojek", "tokopedia", "goto"} THEN "indonesia"
    ELSE "none"

Abs(x) == IF x < 0 THEN -x ELSE x
Min2(a, b) == IF a <= b THEN a ELSE b

\* min(abs(count - min), abs(count - max)), the key of closest_range.
range_distance(count, r) == Min2(Abs(count - r.min_val), Abs(count - r.max_val))

\* min(ranges.items(), key=...): the first range of least distance.
closest_range(count, rs) ==
    LET best == CHOOSE i \in 1..Len(rs) :
                  /\ \A k \in 1..Len(rs) :
                        range_distance(count, rs[i]) <= range_distance(count, rs[k])
                  /\ \A k \in 1..(i - 1) :
                        range_distance(count, rs[k]) > range_distance(count, rs[i])
    IN  rs[best]

\* ranges[category], or ranges.get(category, (0, 0)).
range_of(rs, category) ==
    IF \E i \in 1..Len(rs) : rs[i].category = category
    THEN rs[CHOOSE i \in 1..Len(rs) : rs[i].category = category]
    ELSE [category |-> category, min_val |-> 0, max_val |-> 0]

\* count < lo * 0.5 or count > hi * 1.5
significantly_off(count, r) == 2 * count < r.min_val \/ 2 * count > 3 * r.max_val

\* Mutant: the adjusted count is the sum of the range, not its half.
midpoint_doubled(r) == r.min_val + r.max_val

\* sum(range) // 2
midpoint(r) == (r.min_val + r.max_val) \div 2

\* Mutant: the outlier check adjusts the count without the audit marker.
check_outliers_unmarked(st, rs) ==
    IF \E i \in 1..Len(rs) : rs[i].min_val <= st.count /\ st.count <= rs[i].max_val
    THEN st
    ELSE LET c == closest_range(st.count, rs)
         IN  IF significantly_off(st.count, c)
             THEN [count |-> midpoint(c), confidence |-> "LOW",
                   sources |-> st.sources,
                   explanation |-> Append(st.explanation, "Adjusted from")]
             ELSE st

\* Lines 296-310: the outlier check.  st is the reviewer's working state
\* (count, confidence, sources, explanation).
check_outliers(st, rs) ==
    IF \E i \in 1..Len(rs) : rs[i].min_val <= st.count /\ st.count <= rs[i].max_val
    THEN st
    ELSE LET c == closest_range(st.count, rs)
         IN  IF significantly_off(st.count, c)
             THEN [count |-> midpoint(c), confidence |-> "LOW",
                   sources |-> Append(st.sources, "ADJUSTED"),
                   explanation |-> Append(st.explanation, "Adjusted from")]
             ELSE st

\* Lines 312-323: the location loop of an MNC, from location k on.
RECURSIVE check_locations(_, _, _, _, _)
check_locations(st, rs, locs, web_info, k) ==
    IF k > Len(locs) THEN st
    ELSE LET expected_range == range_of(rs, locs[k].expected_size)
             hit == /\ locs[k].location \in web_info
                    /\ significantly_off(st.count, expected_range)
             nxt == IF hit
                    THEN [count |-> midpoint(expected_range), confidence |-> "MEDIUM",
                          sources |-> Append(st.sources, "LOCATION_" \o locs[k].upper),
                          explanation |-> Append(st.explanation, "Adjusted to")]
                    ELSE st
         IN  check_locations(nxt, rs, locs, web_info, k + 1)

\* Lines 325-352: home and foreign market of a regional tech company.
check_market(st, rs, company, country) ==
    IF home_markets(company) = "none" THEN st
    ELSE IF home_markets(company) = country /\ st.count < range_of(rs, "large").min_val
    THEN [count |-> midpoint(range_of(rs, "large")), confidence |-> "MEDIUM",
          sources |-> Append(st.sources, "HOME_MARKET"),
          explanation |-> Append(st.explanation, "Adjusted up")]
    ELSE IF home_markets(company) # country /\ st.count > range_of(rs, "medium").max_val
    THEN [count |-> midpoint(range_of(rs, "medium")), confidence |-> "MEDIUM",
          sources |-> Append(st.sources, "FOREIGN_MARKET"),
          explanation |-> Append(st.explanation, "Adjusted down")]
    ELSE st

\* "LOCATION" in str(sources) / "MARKET" in str(sources): a substring test
\* on the printed list, so it looks inside every source string.
has_substring(source, word) ==
    IF word = "LOCATION"
    THEN source \in {"LOCATION_KLCC", "LOCATION_BANGSAR", "LOCATION_CYBERJAYA",
                     "LOCATION_PENANG", "LOCATION DATA"}
    ELSE IF word = "MARKET"
    THEN source \in {"HOME_MARKET", "FOREIGN_MARKET", "MARKET REPORT"}
    ELSE FALSE

was_adjusted(sources) ==
    \E i \in 1..Len(sources) :
        \/ sources[i] = "ADJUSTED"
        \/ has_substring(sources[i], "LOCATION")
        \/ has_substring(sources[i], "MARKET")

\* Mutant: the except clause returns a copy of the first-pass result with
\* the confidence lowered.
review_failed_low_confidence(initial_result) ==
    [same_object |-> FALSE, failed |-> TRUE,
     result |-> [initial_result EXCEPT !.confidence = "LOW"]]

\* Lines 362-364: the except clause returns initial_result.
review_failed(initial_result) ==
    [same_object |-> TRUE, failed |-> TRUE, result |-> initial_result]

\* review_employee_count.  The result says whether the function returned
\* the initial_result object itself (by "if not count" or by the except
\* clause) or a new dict, and whether it went through the except clause; a
\* new dict means that the sources list of initial_result was appended to
\* in place, so `sources` is also the new value of
\* initial_result["sources"].
review_employee_count(company, country, initial_result, web_info) ==
    LET count == initial_result.employee_count
        rs == ranges(country, company_type(company))
    IN  IF count = None \/ (IsInt(count) /\ count.v = 0)
        THEN [same_object |-> TRUE, failed |-> FALSE, result |-> initial_result]
        ELSE IF rs = <<>>
        THEN \* min() of an empty sequence raises ValueError
             review_failed(initial_result)
        ELSE LET st0 == [count |-> count.v,
                         confidence |-> initial_result.confidence,
                         sources |-> initial_result.sources,
                         explanation |-> initial_result.explanation]
                 st1 == check_outliers(st0, rs)
                 st2 == IF company_type(company) = "mnc"
                        THEN check_locations(st1, rs,
                                 locations(country, company_type(company)), web_info, 1)
                        ELSE st1
                 st3 == IF company_type(company) = "regional"
                        THEN check_market(st2, rs, company, country)
                        ELSE st2
             IN  [same_object |-> FALSE, failed |-> FALSE,
                  result |-> [employee_count |-> IntVal(st3.count),
                              confidence |-> st3.confidence,
                              sources |-> st3.sources,
                              explanation |-> st3.explanation,
                              was_adjusted |-> was_adjusted(st3.sources)]]

\* ---------------------------------------------- call_openai_with_retry

\* Mutant: the decorator retries on every exception.
retry_if_exception(outcome) == outcome.t # "response"

\* retry=retry_if_exception_type(RateLimitError)
retry_if_exception_type(outcome) == outcome.t = "RateLimitError"

\* Mutant: the decorator stops one attempt later.
stop_after_attempt_plus_one(attempt_number) == attempt_number >= MaxAttempts + 1

\* stop=stop_after_attempt(3)
stop_after_attempt(attempt_number) == attempt_number >= MaxAttempts

\* The retry state of one invocation: the calls made so far, what the last
\* call raised ("" when it answered), how the invocation ended ("none"
\* while it is still running), how often handle_rate_limit slept (after=)
\* and how often the backoff waited (wait=).
NewCall ==
    [attempt_number |-> 0, raised |-> "", outcome |-> "none", slept |-> 0,
     waited |-> 0]

\* One attempt of call_openai_with_retry and the decorator's decision on its
\* outcome: a response is returned; an exception that is not retried is
\* raised as it is; a retried one runs handle_rate_limit and then either
\* stops with RetryError or waits for the next attempt.
call_openai_with_retry(call, outcome) ==
    LET n == call.attempt_number + 1
    IN  IF outcome.t = "response"
        THEN [call EXCEPT !.attempt_number = n, !.raised = "", !.outcome = "returned"]
        ELSE IF ~retry_if_exception_type(outcome)
        THEN [call EXCEPT !.attempt_number = n, !.raised = outcome.t,
                          !.outcome = outcome.t]
        ELSE IF stop_after_attempt(n)
        THEN [call EXCEPT !.attempt_number = n, !.raised = outcome.t,
                          !.outcome = "RetryError", !.slept = @ + 1]
        ELSE [call EXCEPT !.attempt_number = n, !.raised = outcome.t,
                          !.slept = @ + 1, !.waited = @ + 1]

\* ------------------------------------------------------------------ state

VARIABLES
    using_redis,     \* whether the Redis connection was made at start-up
    country,         \* the form field of the request
    companies,       \* the company column of the uploaded file
    pf,              \* the process_file request
    redis_batch,     \* the hash batch:{batch_id}
    redis_results,   \* the key results:{batch_id}
    jobs,            \* the process_company_batch calls, in enqueue order
    client,          \* the get_status / get_results requests of the caller
    completed_sets,  \* how often status was set to "completed"
    now,             \* src/backend/app.py, src/api/app.py: seconds since start
    redis_cache,     \* the employee_count:{company}:{country} keys of the store
    request,         \* the /api/process request being served
    tasks,           \* the get_employee_count calls of the request
    finished,        \* the order in which the calls of the request returned
    previous,        \* the calls of the request served before this one
    review_call,     \* a review_employee_count call on its own
    text_call        \* a call of a text function on its own

\* The variables of the src/main.py pipeline.
pipeline_vars == << using_redis, companies, pf, redis_batch, redis_results,
                    jobs, client, completed_sets >>

\* The variables of the two /api/process applications.
app_vars == << now, redis_cache, request, tasks, finished, previous >>

\* What a step of the src/main.py pipeline leaves alone.
other_vars == << app_vars, review_call, text_call >>

vars == << using_redis, country, companies, pf, redis_batch, redis_results,
           jobs, client, completed_sets, now, redis_cache, request, tasks,
           finished, previous, review_call, text_call >>

Absent == [t |-> "absent"]

\* json.dumps / json.loads of the results list: the entries hold integers,
\* strings, booleans and null, which JSON carries unchanged.
json_dumps(results) == [t |-> "json", list |-> results]
json_loads(text) == text.list

\* A process_company_batch(companies, country, batch_id) call at its start.
\* `fresh` names the locals among initial_result and employee_count that the
\* current pass of the loop has assigned; it is emptied when the pass has
\* recorded its entry.
NewJob(batch) ==
    [ chunk |-> batch, i |-> 1, pc |-> "analyze",
      call_a |-> NewCall, call_d |-> NewCall,
      results |-> <<>>,
      initial_result |-> Unbound, employee_count |-> Unbound,
      fresh |-> {}, processed |-> Unbound ]

\* An HTTP answer of get_status / get_results; code 0 is "no answer yet".
Response(code, error, body) == [code |-> code, error |-> error, body |-> body]
NoResponse == Response(0, "", <<>>)

Init ==
    /\ using_redis \in BOOLEAN
    /\ country \in Countries
    /\ companies \in { [k \in 1..n |-> k] : n \in 1..MaxCompanies }
    /\ pf = [pc |-> "start", i |-> 0]
    /\ redis_batch = Absent
    /\ redis_results = Absent
    /\ jobs = <<>>
    /\ client = [pc |-> "idle", requests |-> 0, status |-> NoResponse,
                 results |-> NoResponse]
    /\ completed_sets = 0

\* The /api/process applications of src/backend/app.py and src/api/app.py
\* have served nothing, and no separate review call is made.
AppIdle ==
    /\ now = 0
    /\ redis_cache = {}
    /\ request = [n |-> 0, pc |-> "idle", rows |-> <<>>, results |-> <<>>,
                  at |-> 0, output |-> [code |-> 0, rows |-> <<>>]]
    /\ tasks = <<>>
    /\ finished = <<>>
    /\ previous = <<>>

ReviewIdle == review_call = Absent

TextIdle == text_call = Absent

\* ---------------------------------------------------------- process_file

\* batch_size of the asynchronous path.
batch_size == BatchSize

\* Mutant: the slice takes one element more, companies[i:i + batch_size + 1].
chunk_at_one_more(list, i) ==
    SubSeq(list, i + 1,
           IF i + batch_size + 1 <= Len(list) THEN i + batch_size + 1 ELSE Len(list))

\* companies[i:i + batch_size]
chunk_at(list, i) ==
    SubSeq(list, i + 1, IF i + batch_size <= Len(list) THEN i + batch_size ELSE Len(list))

\* Lines 658-671 (store-backed mode): the progress hash is written, unless
\* the store raises, which ends the request with a 500; lines 692-696
\* (development mode): the whole list is processed by one call.
ProcessFileStart ==
    /\ pf.pc = "start"
    /\ IF using_redis
       THEN \E ok \in BOOLEAN :
              IF ok
              THEN /\ redis_batch' = [t |-> "hash", total |-> Len(companies),
                                      processed |-> 0, status |-> "processing"]
                   /\ pf' = [pf EXCEPT !.pc = "enqueue"]
                   /\ UNCHANGED jobs
              ELSE /\ pf' = [pf EXCEPT !.pc = "error"]
                   /\ UNCHANGED << redis_batch, jobs >>
       ELSE /\ jobs' = << NewJob(companies) >>
            /\ pf' = [pf EXCEPT !.pc = "sync"]
            /\ UNCHANGED redis_batch
    /\ UNCHANGED << using_redis, country, companies, redis_results, client,
                    completed_sets >>

\* Lines 675-682: one pass of the loop that enqueues the chunk jobs.
ProcessFileEnqueue ==
    /\ pf.pc = "enqueue"
    /\ \E ok \in BOOLEAN :
         IF ok
         THEN /\ jobs' = Append(jobs, NewJob(chunk_at(companies, pf.i)))
              /\ pf' = [pf EXCEPT !.i = @ + batch_size,
                                  !.pc = IF pf.i + batch_size < Len(companies)
                                         THEN "enqueue" ELSE "hset_jobs"]
         ELSE /\ pf' = [pf EXCEPT !.pc = "error"]
              /\ UNCHANGED jobs
    /\ UNCHANGED << using_redis, country, companies, redis_batch, redis_results,
                    client, completed_sets >>

\* Lines 684-691: the job ids are stored and the request answers with the
\* batch id.
ProcessFileRespond ==
    /\ pf.pc = "hset_jobs"
    /\ \E ok \in BOOLEAN : pf' = [pf EXCEPT !.pc = IF ok THEN "started" ELSE "error"]
    /\ UNCHANGED << using_redis, country, companies, redis_batch, redis_results,
                    jobs, client, completed_sets >>

\* Lines 696-727: the synchronous call has returned and the CSV is sent.
ProcessFileSendCsv ==
    /\ pf.pc = "sync"
    /\ jobs[1].pc = "done"
    /\ pf' = [pf EXCEPT !.pc = "sent"]
    /\ UNCHANGED << using_redis, country, companies, redis_batch, redis_results,
                    jobs, client, completed_sets >>

\* ------------------------------------------------- process_company_batch

\* Lines 537-542: the except clause records an error entry for the company.
except_handler(job, e) ==
    [job EXCEPT !.results = Append(@, [company |-> job.chunk[job.i], error |-> e]),
                !.fresh = {}, !.pc = "next"]

\* Mutant: analyze_search_results without its except clause, so that an
\* exception of the first stage reaches the except clause of the batch loop.
analyze_search_results_uncaught(job, outcome) ==
    LET call == call_openai_with_retry(job.call_a, outcome)
    IN  IF call.outcome = "none"
        THEN [job EXCEPT !.call_a = call]
        ELSE IF call.outcome # "returned"
        THEN except_handler([job EXCEPT !.call_a = call], call.outcome)
        ELSE IF outcome.function_call
        THEN [job EXCEPT !.call_a = call, !.initial_result = outcome.arguments,
                         !.fresh = {"initial_result"}, !.pc = "review"]
        ELSE [job EXCEPT !.call_a = call, !.pc = "direct"]

\* Line 400 with analyze_search_results (880-985): one backend attempt of
\* the first stage.  A function_call answer becomes initial_result; every
\* exception is caught at line 983 and, like an answer without
\* function_call, makes the stage return None, which leads to the direct
\* estimate.
analyze_search_results(job, outcome) ==
    LET call == call_openai_with_retry(job.call_a, outcome)
    IN  IF call.outcome = "none"
        THEN [job EXCEPT !.call_a = call]
        ELSE IF call.outcome = "returned" /\ outcome.function_call
        THEN [job EXCEPT !.call_a = call, !.initial_result = outcome.arguments,
                         !.fresh = {"initial_result"}, !.pc = "review"]
        ELSE [job EXCEPT !.call_a = call, !.pc = "direct"]

\* Mutant: when the retries of the direct estimate are used up, the stage
\* starts over.
direct_estimate_retry_stage(job, outcome) ==
    LET call == call_openai_with_retry(job.call_d, outcome)
    IN  IF call.outcome = "none"
        THEN [job EXCEPT !.call_d = call]
        ELSE IF call.outcome = "RetryError"
        THEN [job EXCEPT !.call_d = NewCall]
        ELSE IF call.outcome # "returned"
        THEN except_handler([job EXCEPT !.call_d = call], call.outcome)
        ELSE IF ~outcome.function_call
        THEN [job EXCEPT !.call_d = call, !.pc = "review"]
        ELSE LET employee_count == validate_employee_count(outcome.arguments.employee_count)
                 assigned == [job EXCEPT !.call_d = call,
                                         !.initial_result = outcome.arguments,
                                         !.employee_count = employee_count,
                                         !.fresh = {"initial_result", "employee_count"}]
             IN  IF employee_count = None
                 THEN except_handler(assigned, "ValueError")
                 ELSE [assigned EXCEPT !.initial_result.employee_count = employee_count,
                                       !.pc = "review"]

\* Lines 406-507: one backend attempt of the direct estimate.  An exception
\* of the call reaches the except clause; a function_call answer is
\* validated; an answer without function_call leaves initial_result as it
\* was.
direct_estimate(job, outcome) ==
    LET call == call_openai_with_retry(job.call_d, outcome)
    IN  IF call.outcome = "none"
        THEN [job EXCEPT !.call_d = call]
        ELSE IF call.outcome # "returned"
        THEN except_handler([job EXCEPT !.call_d = call], call.outcome)
        ELSE IF ~outcome.function_call
        THEN [job EXCEPT !.call_d = call, !.pc = "review"]
        ELSE LET employee_count == validate_employee_count(outcome.arguments.employee_count)
                 assigned == [job EXCEPT !.call_d = call,
                                         !.initial_result = outcome.arguments,
                                         !.employee_count = employee_count,
                                         !.fresh = {"initial_result", "employee_count"}]
             IN  IF employee_count = None
                 THEN except_handler(assigned, "ValueError")
                 ELSE [assigned EXCEPT !.initial_result.employee_count = employee_count,
                                       !.pc = "review"]

\* Lines 520-527: the entry appended for a reviewed result.
result_entry(company, reviewed_result) ==
    [ company |-> company,
      employee_count |-> reviewed_result.employee_count,
      confidence |-> reviewed_result.confidence,
      sources |-> reviewed_result.sources,
      explanation |-> reviewed_result.explanation,
      was_adjusted |-> IF "was_adjusted" \in DOMAIN reviewed_result
                       THEN reviewed_result.was_adjusted ELSE FALSE ]

\* Lines 509-527: review, validation of the reviewed count and the append.
\* Reading initial_result or employee_count before any assignment raises
\* UnboundLocalError.  Assigning reviewed_result["employee_count"] writes to
\* initial_result when the reviewer returned that same object.
review_and_append(job, ctry, web_info, redis) ==
    IF job.initial_result = Unbound
    THEN except_handler(job, "UnboundLocalError")
    ELSE LET company == job.chunk[job.i]
             rev == review_employee_count(CompanyName(company), ctry,
                                          job.initial_result, web_info)
             mutated == IF rev.same_object THEN job.initial_result
                        ELSE [job.initial_result EXCEPT !.sources = rev.result.sources]
             reviewed_count == validate_employee_count(rev.result.employee_count)
         IN  IF reviewed_count = None /\ job.employee_count = Unbound
             THEN except_handler([job EXCEPT !.initial_result = mutated],
                                 "UnboundLocalError")
             ELSE LET final == IF reviewed_count = None THEN job.employee_count
                               ELSE reviewed_count
                      reviewed_result == [rev.result EXCEPT !.employee_count = final]
                  IN  [job EXCEPT
                         !.initial_result = IF rev.same_object THEN reviewed_result
                                            ELSE mutated,
                         !.results = Append(@, result_entry(company, reviewed_result)),
                         !.fresh = {},
                         !.pc = IF redis THEN "hincrby" ELSE "next"]

\* Mutant: the completion test fires on any progress.
reached_any(processed, total) == processed >= 1

\* processed >= total, line 533.
reached_total(processed, total) == processed >= total

JobAt(j, pcs) == j \in 1..Len(jobs) /\ jobs[j].pc \in pcs

AnalyzeAttempt(j) ==
    /\ JobAt(j, {"analyze"})
    /\ \E outcome \in BackendOutcomes :
         jobs' = [jobs EXCEPT ![j] = analyze_search_results(jobs[j], outcome)]
    /\ UNCHANGED << using_redis, country, companies, pf, redis_batch,
                    redis_results, client, completed_sets >>

DirectAttempt(j) ==
    /\ JobAt(j, {"direct"})
    /\ \E outcome \in BackendOutcomes :
         jobs' = [jobs EXCEPT ![j] = direct_estimate(jobs[j], outcome)]
    /\ UNCHANGED << using_redis, country, companies, pf, redis_batch,
                    redis_results, client, completed_sets >>

\* search_web_info's text (line 398) is read by the reviewer only, so it is
\* drawn here.
Review(j) ==
    /\ JobAt(j, {"review"})
    /\ \E web_info \in WebInfos :
         jobs' = [jobs EXCEPT ![j] = review_and_append(jobs[j], country, web_info,
                                                       using_redis)]
    /\ UNCHANGED << using_redis, country, companies, pf, redis_batch,
                    redis_results, client, completed_sets >>

\* Mutant: the counter is advanced by the size of the chunk at every
\* company.
Hincrby_by_chunk(j) ==
    LET step == Len(jobs[j].chunk)
    IN
    /\ JobAt(j, {"hincrby"})
    /\ \E ok \in BOOLEAN :
         IF ok
         THEN /\ redis_batch' = [redis_batch EXCEPT !.processed = @ + step]
              /\ jobs' = [jobs EXCEPT ![j].processed =
                                         IntVal(redis_batch.processed + step),
                                      ![j].pc = "hget"]
         ELSE /\ jobs' = [jobs EXCEPT ![j] = except_handler(@, "ConnectionError")]
              /\ UNCHANGED redis_batch
    /\ UNCHANGED << using_redis, country, companies, pf, redis_results, client,
                    completed_sets >>

\* Line 531: hincrby, atomic in the store; a store error reaches the except
\* clause.
Hincrby(j) ==
    /\ JobAt(j, {"hincrby"})
    /\ \E ok \in BOOLEAN :
         IF ok
         THEN /\ redis_batch' = [redis_batch EXCEPT !.processed = @ + 1]
              /\ jobs' = [jobs EXCEPT ![j].processed = IntVal(redis_batch.processed + 1),
                                      ![j].pc = "hget"]
         ELSE /\ jobs' = [jobs EXCEPT ![j] = except_handler(@, "ConnectionError")]
              /\ UNCHANGED redis_batch
    /\ UNCHANGED << using_redis, country, companies, pf, redis_results, client,
                    completed_sets >>

\* Lines 532-533: total is read and compared.
Hget(j) ==
    /\ JobAt(j, {"hget"})
    /\ \E ok \in BOOLEAN :
         IF ok
         THEN jobs' = [jobs EXCEPT ![j].pc =
                          IF reached_total(jobs[j].processed.v, redis_batch.total)
                          THEN "hset" ELSE "next"]
         ELSE jobs' = [jobs EXCEPT ![j] = except_handler(@, "ConnectionError")]
    /\ UNCHANGED << using_redis, country, companies, pf, redis_batch,
                    redis_results, client, completed_sets >>

\* Line 534: the status is set to completed.
HsetCompleted(j) ==
    /\ JobAt(j, {"hset"})
    /\ \E ok \in BOOLEAN :
         IF ok
         THEN /\ redis_batch' = [redis_batch EXCEPT !.status = "completed"]
              /\ completed_sets' = completed_sets + 1
              /\ jobs' = [jobs EXCEPT ![j].pc = "set"]
         ELSE /\ jobs' = [jobs EXCEPT ![j] = except_handler(@, "ConnectionError")]
              /\ UNCHANGED << redis_batch, completed_sets >>
    /\ UNCHANGED << using_redis, country, companies, pf, redis_results, client >>

\* Line 535: the results of this call are stored under results:{batch_id}.
SetResults(j) ==
    /\ JobAt(j, {"set"})
    /\ \E ok \in BOOLEAN :
         IF ok
         THEN /\ redis_results' = json_dumps(jobs[j].results)
              /\ jobs' = [jobs EXCEPT ![j].pc = "next"]
         ELSE /\ jobs' = [jobs EXCEPT ![j] = except_handler(@, "ConnectionError")]
              /\ UNCHANGED redis_results
    /\ UNCHANGED << using_redis, country, companies, pf, redis_batch, client,
                    completed_sets >>

\* Line 396: the loop moves to the next company, or line 544 returns.
LoopNext(j) ==
    /\ JobAt(j, {"next"})
    /\ jobs' = [jobs EXCEPT ![j].i = @ + 1,
                            ![j].call_a = NewCall,
                            ![j].call_d = NewCall,
                            ![j].pc = IF jobs[j].i + 1 > Len(jobs[j].chunk)
                                      THEN "done" ELSE "analyze"]
    /\ UNCHANGED << using_redis, country, companies, pf, redis_batch,
                    redis_results, client, completed_sets >>

\* ------------------------------------------------ get_status, get_results

\* The caller knows the batch id once process_file has answered (line 686).
CanRequest ==
    /\ pf.pc = "started"
    /\ client.pc = "idle"
    /\ client.requests < MaxRequests

\* Lines 737-759.  progress is round(processed / total * 100, 2), held in
\* hundredths of a percent (no quotient of the bounded batches falls on a
\* rounding tie).
get_status(batch_data) ==
    IF batch_data = Absent
    THEN Response(404, "Batch not found", <<>>)
    ELSE Response(200, "", [status |-> batch_data.status, total |-> batch_data.total,
                            processed |-> batch_data.processed,
                            progress |->
                                IF batch_data.total > 0
                                THEN (2 * batch_data.processed * 10000 + batch_data.total)
                                         \div (2 * batch_data.total)
                                ELSE 0])

GetStatus ==
    /\ CanRequest
    /\ \E ok \in BOOLEAN :
         client' = [client EXCEPT !.requests = @ + 1,
                                  !.status = IF ok THEN get_status(redis_batch)
                                             ELSE Response(500, "ConnectionError", <<>>)]
    /\ UNCHANGED << using_redis, country, companies, pf, redis_batch,
                    redis_results, jobs, completed_sets >>

\* Lines 765-770: the hash is read; the request goes on to read the results
\* only when the status is completed.
GetResultsReadBatch ==
    /\ CanRequest
    /\ \E ok \in BOOLEAN :
         client' =
            IF ~ok
            THEN [client EXCEPT !.requests = @ + 1,
                                !.results = Response(500, "ConnectionError", <<>>)]
            ELSE IF redis_batch = Absent
            THEN [client EXCEPT !.requests = @ + 1,
                                !.results = Response(404, "Batch not found", <<>>)]
            ELSE IF redis_batch.status # "completed"
            THEN [client EXCEPT !.requests = @ + 1,
                                !.results = Response(400, "Batch processing not completed",
                                                     <<>>)]
            ELSE [client EXCEPT !.requests = @ + 1, !.results = NoResponse,
                                !.pc = "get_results"]
    /\ UNCHANGED << using_redis, country, companies, pf, redis_batch,
                    redis_results, jobs, completed_sets >>

\* Lines 772-776: the results key is read.
GetResultsReadResults ==
    /\ client.pc = "get_results"
    /\ \E ok \in BOOLEAN :
         client' =
            IF ~ok
            THEN [client EXCEPT !.pc = "idle",
                                !.results = Response(500, "ConnectionError", <<>>)]
            ELSE IF redis_results = Absent
            THEN [client EXCEPT !.pc = "idle",
                                !.results = Response(404, "Results not found", <<>>)]
            ELSE [client EXCEPT !.pc = "idle",
                                !.results = Response(200, "", json_loads(redis_results))]
    /\ UNCHANGED << using_redis, country, companies, pf, redis_batch,
                    redis_results, jobs, completed_sets >>

\* ------------------------------------------------------------ specification

\* The steps of one company that touch nothing but the call's own
\* variables (lines 398-527 and the except clause): every way one of them
\* can go.
local_successors(job, ctry, redis) ==
    IF job.pc = "analyze"
    THEN { analyze_search_results(job, outcome) : outcome \in AsyncBackendOutcomes }
    ELSE IF job.pc = "direct"
    THEN { direct_estimate(job, outcome) : outcome \in AsyncBackendOutcomes }
    ELSE IF job.pc = "review"
    THEN { review_and_append(job, ctry, web_info, redis) : web_info \in AsyncWebInfos }
    ELSE { job }

\* The states in which a set of calls can arrive at line 529 or at the end
\* of the except clause.
RECURSIVE resolutions(_, _, _)
resolutions(S, ctry, redis) ==
    LET T == UNION { local_successors(job, ctry, redis) : job \in S }
    IN  IF T = S THEN S ELSE resolutions(T, ctry, redis)

\* Lines 398-527 for one company as a single step: up to the progress
\* update the call reads and writes only its own variables, so the other
\* chunk jobs cannot tell its backend attempts apart.  The retry state of
\* the two finished invocations is dropped at the end of the step.
ResolveCompany(j) ==
    /\ JobAt(j, {"analyze"})
    /\ \E job \in { [r EXCEPT !.call_a = NewCall, !.call_d = NewCall] :
                         r \in resolutions({jobs[j]}, country, using_redis) } :
         jobs' = [jobs EXCEPT ![j] = job]
    /\ UNCHANGED << using_redis, country, companies, pf, redis_batch,
                    redis_results, client, completed_sets >>

JobIds == 1..MaxCompanies

\* Development mode (no Redis connection at start-up): process_file runs
\* process_company_batch itself, followed attempt by attempt.
Next ==
    \/ ProcessFileStart /\ UNCHANGED other_vars
    \/ ProcessFileSendCsv /\ UNCHANGED other_vars
    \/ \E j \in JobIds : AnalyzeAttempt(j) /\ UNCHANGED other_vars
    \/ \E j \in JobIds : DirectAttempt(j) /\ UNCHANGED other_vars
    \/ \E j \in JobIds : Review(j) /\ UNCHANGED other_vars
    \/ \E j \in JobIds : LoopNext(j) /\ UNCHANGED other_vars

InitSync ==
    Init /\ using_redis = FALSE /\ AppIdle /\ ReviewIdle /\ TextIdle

Spec == InitSync /\ [][Next]_vars

\* Development mode where the request keeps running: process_file and the
\* process_company_batch call it makes are sequential code, and every
\* backend call returns or raises, so a step that can be taken is taken.
\* For the review step, which is enabled exactly while the call is at line
\* 510 and always leaves it, weak fairness is written as what it amounts
\* to: the call is not at that line for ever.
SpecFair ==
    /\ InitSync
    /\ [][Next]_vars
    /\ WF_vars(ProcessFileStart /\ UNCHANGED other_vars)
    /\ WF_vars(ProcessFileSendCsv /\ UNCHANGED other_vars)
    /\ WF_vars(\E j \in JobIds : AnalyzeAttempt(j) /\ UNCHANGED other_vars)
    /\ WF_vars(\E j \in JobIds : DirectAttempt(j) /\ UNCHANGED other_vars)
    /\ WF_vars(\E j \in JobIds : LoopNext(j) /\ UNCHANGED other_vars)
    /\ \A j \in JobIds : []<>(~JobAt(j, {"review"}))

\* Store-backed mode: process_file enqueues the chunk jobs, the workers run
\* them in any interleaving, and the caller polls get_status / get_results.
NextAsync ==
    \/ ProcessFileStart /\ UNCHANGED other_vars
    \/ ProcessFileEnqueue /\ UNCHANGED other_vars
    \/ ProcessFileRespond /\ UNCHANGED other_vars
    \/ \E j \in JobIds : ResolveCompany(j) /\ UNCHANGED other_vars
    \/ \E j \in JobIds : Hincrby(j) /\ UNCHANGED other_vars
    \/ \E j \in JobIds : Hget(j) /\ UNCHANGED other_vars
    \/ \E j \in JobIds : HsetCompleted(j) /\ UNCHANGED other_vars
    \/ \E j \in JobIds : SetResults(j) /\ UNCHANGED other_vars
    \/ \E j \in JobIds : LoopNext(j) /\ UNCHANGED other_vars
    \/ GetStatus /\ UNCHANGED other_vars
    \/ GetResultsReadBatch /\ UNCHANGED other_vars
    \/ GetResultsReadResults /\ UNCHANGED other_vars

InitAsync ==
    /\ Init /\ using_redis = TRUE /\ country = "malaysia"
    /\ AppIdle /\ ReviewIdle /\ TextIdle

SpecAsync == InitAsync /\ [][NextAsync]_vars

\* ======================================================================
\* The /api/process application of src/backend/app.py: process_file hands
\* the company column to process_companies, which runs one
\* get_employee_count call per company on the thread pool and gathers the
\* answers.  get_employee_count looks the pair up in the Redis cache, asks
\* the backend on a miss, caches the answer for 24 hours, and falls back to
\* get_employee_count_without_cache when the store raises.
\* ======================================================================

\* ------------------------------------------------------------------ bounds

\* Data rows of one uploaded file.
MaxRows == 2

\* Uploads served one after the other.
MaxUploads == 2

\* The clock advances in steps of TickSeconds, MaxTicks times at most.
TickSeconds == 43200
MaxTicks == 2

\* ------------------------------------------------------- program constants

\* redis_client.setex(cache_key, 86400, response)
TTL == 86400

\* ------------------------------------------------------------------ values

\* A Python str.
Str(s) == [t |-> "str", v |-> s]

\* The company column of an uploaded row: a name or an empty cell.
CompanyColumn == {"Acme", ""}

\* A data row of the uploaded CSV, as csv.reader yields it: its cells up to
\* the company column (the first column here), or no cell at all for a
\* blank line.
CsvRows == { <<>> } \cup { << c >> : c \in CompanyColumn }

\* `company_name_index < len(row)` with the company in the first column.
has_company(row) == 0 < Len(row)

\* companies = [row[company_name_index] for row in rows
\*              if company_name_index < len(row)]
company_cells(rows) ==
    LET with == SelectSeq(rows, has_company)
    IN  [k \in 1..Len(with) |-> with[k][1]]

\* The form field of the applications, one of ASIAN_AUSTRALIAN_COUNTRIES.
AppCountry == "Singapore"

\* The texts a completion may carry: a number after a blank, a number with
\* a thousands separator, and the word the prompt asks for when unsure.
CompletionTexts == {" 250", "1,200", "Unknown"}

\* What one backend call can do: raise, or answer with a text.
Completion(text) == [t |-> "completion", text |-> text]
CompletionOutcomes ==
    { [t |-> "Exception"] } \cup { Completion(text) : text \in CompletionTexts }

\* str.strip()
strip(text) == IF text = " 250" THEN "250" ELSE text

\* str.lower()
lower(text) ==
    IF text = "Unknown" THEN "unknown"
    ELSE IF text = "Acme" THEN "acme"
    ELSE IF text = "Singapore" THEN "singapore"
    ELSE IF text = "Company" THEN "company"
    ELSE text

\* str.replace(',', '')
remove_commas(text) == IF text = "1,200" THEN "1200" ELSE text

\* Whether int(text) returns rather than raising ValueError.
int_parses(text) == text \in {"250", "1200", " 250"}

\* "error" in response.lower()
mentions_error(text) == text \in {"Error retrieving data"}

\* ---------------------------------------------------------- the Redis cache

get_cache_key(company_name, ctry) ==
    "employee_count:" \o lower(company_name) \o ":" \o lower(ctry)

\* redis_client.get(cache_key) when the store answers: the value of the key
\* if it is set and has not expired, None otherwise.
redis_get(cache_key) ==
    IF \E e \in redis_cache : e.key = cache_key /\ now < e.expires_at
    THEN Str((CHOOSE e \in redis_cache : e.key = cache_key /\ now < e.expires_at).value)
    ELSE None

\* redis_client.setex(cache_key, seconds, value) when the store answers.
redis_setex(cache_key, seconds, value) ==
    { e \in redis_cache : e.key # cache_key }
        \cup { [key |-> cache_key, value |-> value, expires_at |-> now + seconds] }

\* Mutant: no cached value counts as a hit.
cache_hit_never(cached_result) == FALSE

\* `if cached_result:` (line 68): None and the empty string are misses.
cache_hit(cached_result) == cached_result # None /\ cached_result.v # ""

\* `if response.lower() != 'unknown':` (line 84).
cacheable(response) == lower(response) # "unknown"

\* Lines 87-93: what get_employee_count returns for the backend's answer.
miss_return(response) ==
    IF int_parses(response) THEN response
    ELSE IF lower(response) = "unknown" THEN "No data available"
    ELSE response

\* -------------------------------------------------------------------- tasks

\* One get_employee_count(company, country) call submitted to the executor:
\* where it is, the backend's first answer, what it returned, the backend
\* calls it made, whether the store raised, and when it wrote the cache
\* (-1: it did not).
NewTask(company_name) ==
    [ company |-> company_name, pc |-> "get", response |-> None, ret |-> None,
      calls |-> 0, redis_error |-> FALSE, cached_at |-> -1 ]

Returned(task, value) == [task EXCEPT !.ret = Str(value), !.pc = "done"]

TaskAt(i, pc) ==
    /\ request.pc = "running"
    /\ i \in 1..Len(tasks)
    /\ tasks[i].pc = pc

\* What a step of the applications leaves alone.
non_app_vars == << pipeline_vars, country, review_call, text_call >>

\* Task i moves to `task`; a task that returned is next in the completion
\* order.
TaskStep(i, task) ==
    /\ tasks' = [tasks EXCEPT ![i] = task]
    /\ finished' = IF task.pc = "done" THEN Append(finished, i) ELSE finished

\* ------------------------------------ get_employee_count (src/backend/app.py)

\* Lines 65-72: the cache lookup.  A store error leads to the except clause
\* of line 95; a hit returns the cached value; a miss goes on to the backend.
lookup(task, ctry, ok) ==
    IF ~ok
    THEN [task EXCEPT !.redis_error = TRUE, !.pc = "fallback"]
    ELSE LET cached_result == redis_get(get_cache_key(task.company, ctry))
         IN  IF cache_hit(cached_result)
             THEN Returned(task, cached_result.v)
             ELSE [task EXCEPT !.pc = "create"]

\* Lines 73-93 up to the cache write: the backend call.  An exception is
\* caught at line 99; an answer that is not 'unknown' is written to the
\* cache next; 'unknown' is returned as 'No data available'.
ask_backend(task, outcome) ==
    LET called == [task EXCEPT !.calls = @ + 1]
    IN  IF outcome.t = "Exception"
        THEN Returned(called, "Error retrieving data")
        ELSE LET response == strip(outcome.text)
                 answered == [called EXCEPT !.response = Str(response)]
             IN  IF cacheable(response)
                 THEN [answered EXCEPT !.pc = "setex"]
                 ELSE Returned(answered, miss_return(response))

\* Lines 85-93: the value is returned once the cache write went through; a
\* store error leads to the except clause of line 95.
after_setex(task, ok) ==
    IF ok
    THEN Returned([task EXCEPT !.cached_at = now], miss_return(task.response.v))
    ELSE [task EXCEPT !.redis_error = TRUE, !.pc = "fallback"]

\* Lines 103-116 (reached from line 98): the backend is asked again and its
\* stripped text is returned as it is.
backend_get_employee_count_without_cache(task, outcome) ==
    LET called == [task EXCEPT !.calls = @ + 1]
    IN  IF outcome.t = "Exception"
        THEN Returned(called, "Error retrieving data")
        ELSE Returned(called, strip(outcome.text))

\* Mutant: the answers come in the order in which the calls returned.
gather_as_completed(ts) == [k \in 1..Len(finished) |-> ts[finished[k]].ret]

\* asyncio.gather(*tasks): the answers in the order of the tasks.
gather(ts) == [k \in 1..Len(ts) |-> ts[k].ret]

\* A call of the upload just served that was the only one for its company,
\* got its answer from the backend and wrote it to the cache.
wrote_cache_alone(task) ==
    /\ task.cached_at # -1
    /\ ~task.redis_error
    /\ Cardinality({ k \in 1..Len(tasks) : tasks[k].company = task.company }) = 1

\* Lines 153-181 with process_companies 118-124: the rows are read and one
\* get_employee_count call per company is submitted to the executor, whose
\* 10 workers take up all calls of an upload of MaxRows rows at once.  Of
\* the upload served before, the calls that wrote the cache are remembered.
BackendProcessFile ==
    /\ request.pc = "idle"
    /\ request.n < MaxUploads
    /\ \E n \in 1..MaxRows : \E rows \in [1..n -> CsvRows] :
         LET companies_ == company_cells(rows)
         IN  /\ request' = [n |-> request.n + 1, pc |-> "running", rows |-> rows,
                            results |-> <<>>, at |-> now,
                            output |-> [code |-> 0, rows |-> <<>>]]
             /\ tasks' = [i \in 1..Len(companies_) |-> NewTask(companies_[i])]
    /\ previous' = SelectSeq(tasks, wrote_cache_alone)
    /\ finished' = <<>>
    /\ UNCHANGED << now, redis_cache, non_app_vars >>

BackendGet(i) ==
    /\ TaskAt(i, "get")
    /\ \E ok \in BOOLEAN : TaskStep(i, lookup(tasks[i], country, ok))
    /\ UNCHANGED << now, redis_cache, request, previous, non_app_vars >>

BackendCreate(i) ==
    /\ TaskAt(i, "create")
    /\ \E outcome \in CompletionOutcomes : TaskStep(i, ask_backend(tasks[i], outcome))
    /\ UNCHANGED << now, redis_cache, request, previous, non_app_vars >>

BackendSetex(i) ==
    /\ TaskAt(i, "setex")
    /\ \E ok \in BOOLEAN :
         /\ TaskStep(i, after_setex(tasks[i], ok))
         /\ redis_cache' =
              IF ok
              THEN redis_setex(get_cache_key(tasks[i].company, country), TTL,
                               tasks[i].response.v)
              ELSE redis_cache
    /\ UNCHANGED << now, request, previous, non_app_vars >>

BackendFallback(i) ==
    /\ TaskAt(i, "fallback")
    /\ \E outcome \in CompletionOutcomes :
         TaskStep(i, backend_get_employee_count_without_cache(tasks[i], outcome))
    /\ UNCHANGED << now, redis_cache, request, previous, non_app_vars >>

\* Lines 184-195 and 211-213: every row is written with one more cell,
\* employee_counts[i] for the i-th data row when it has the company column
\* and 'Error: Invalid row' otherwise.  An index past the end of
\* employee_counts raises IndexError, which the except clause answers
\* with status 500.
processed_rows(rows, employee_counts) ==
    IF \E i \in 1..Len(rows) : has_company(rows[i]) /\ i > Len(employee_counts)
    THEN [code |-> 500, rows |-> <<>>]
    ELSE [code |-> 200,
          rows |-> [i \in 1..Len(rows) |->
                      [row |-> rows[i],
                       appended |-> IF has_company(rows[i]) THEN employee_counts[i]
                                    ELSE Str("Error: Invalid row")]]]

\* Lines 127-128 and 181-209: every call has returned, the answers are
\* handed to process_file, and the CSV is written and sent.
BackendGather ==
    /\ request.pc = "running"
    /\ \A i \in 1..Len(tasks) : tasks[i].pc = "done"
    /\ request' = [request EXCEPT
                      !.pc = "idle", !.results = gather(tasks),
                      !.output = processed_rows(request.rows, gather(tasks))]
    /\ UNCHANGED << now, redis_cache, tasks, finished, previous, non_app_vars >>

\* Time passes; the store drops the keys whose 24 hours are over.  A step
\* of the clock is far longer than an upload takes, so it falls between two
\* uploads.
Tick ==
    /\ request.pc = "idle"
    /\ now < MaxTicks * TickSeconds
    /\ now' = now + TickSeconds
    /\ redis_cache' = { e \in redis_cache : now' < e.expires_at }
    /\ UNCHANGED << request, tasks, finished, previous, non_app_vars >>

TaskIds == 1..MaxRows

InitApp ==
    /\ AppIdle
    /\ country = AppCountry
    /\ using_redis = FALSE
    /\ companies = <<>>
    /\ pf = [pc |-> "start", i |-> 0]
    /\ redis_batch = Absent
    /\ redis_results = Absent
    /\ jobs = <<>>
    /\ client = [pc |-> "idle", requests |-> 0, status |-> NoResponse,
                 results |-> NoResponse]
    /\ completed_sets = 0
    /\ ReviewIdle
    /\ TextIdle

NextBackend ==
    \/ BackendProcessFile
    \/ \E i \in TaskIds : BackendGet(i)
    \/ \E i \in TaskIds : BackendCreate(i)
    \/ \E i \in TaskIds : BackendSetex(i)
    \/ \E i \in TaskIds : BackendFallback(i)
    \/ BackendGather
    \/ Tick

SpecBackend == InitApp /\ [][NextBackend]_vars

\* ======================================================================
\* The /api/process application of src/api/app.py: process_companies
\* resolves the companies one after the other, each through
\* get_employee_count_without_cache.
\* ======================================================================

\* Lines 113-156: one backend call; a number is returned without its
\* commas, an answer that mentions an error as 'Error retrieving data',
\* any other text as it is, and an exception of the call as an error text.
api_get_employee_count_without_cache(task, outcome) ==
    LET called == [task EXCEPT !.calls = @ + 1]
    IN  IF outcome.t = "Exception"
        THEN Returned(called, "Error: API call failed")
        ELSE LET response == strip(outcome.text)
                 cleaned_response == remove_commas(response)
                 answered == [called EXCEPT !.response = Str(response)]
             IN  IF int_parses(cleaned_response)
                 THEN Returned(answered, cleaned_response)
                 ELSE IF mentions_error(response)
                 THEN Returned(answered, "Error retrieving data")
                 ELSE Returned(answered, response)

\* Lines 220-245: the rows are read and process_companies is awaited.
ApiProcessFile ==
    /\ request.pc = "idle"
    /\ request.n < MaxUploads
    /\ \E n \in 1..MaxRows : \E rows \in [1..n -> CsvRows] :
         LET companies_ == company_cells(rows)
         IN  /\ request' = [n |-> request.n + 1, pc |-> "running", rows |-> rows,
                            results |-> <<>>, at |-> now,
                            output |-> [code |-> 0, rows |-> <<>>]]
             /\ tasks' = [i \in 1..Len(companies_) |->
                             [NewTask(companies_[i]) EXCEPT !.pc = "call"]]
    /\ previous' = tasks
    /\ finished' = <<>>
    /\ UNCHANGED << now, redis_cache, non_app_vars >>

\* Lines 163-170: one pass of the loop of process_companies.
ApiResolve(i) ==
    /\ TaskAt(i, "call")
    /\ \A k \in 1..(i - 1) : tasks[k].pc = "done"
    /\ \E outcome \in CompletionOutcomes :
         LET task == api_get_employee_count_without_cache(tasks[i], outcome)
         IN  /\ TaskStep(i, task)
             /\ request' = [request EXCEPT !.results =
                               Append(@, [company |-> task.company,
                                          employee_count |-> task.ret])]
    /\ UNCHANGED << now, redis_cache, previous, non_app_vars >>

\* Lines 256-262: the i-th data row is written when it has the company
\* column, with employee_counts[i]['employee_count'] as one more cell, or
\* with 'Error: No data' when employee_counts has no i-th entry.
written_rows(rows, employee_counts) ==
    LET new_rows == [i \in 1..Len(rows) |->
                       [row |-> rows[i],
                        appended |-> IF i <= Len(employee_counts)
                                     THEN employee_counts[i].employee_count
                                     ELSE Str("Error: No data")]]
    IN  [code |-> 200,
         rows |-> SelectSeq(new_rows, LAMBDA r : has_company(r.row))]

\* Lines 172-173 and 247-271: the list is returned and the CSV is sent.
ApiRespond ==
    /\ request.pc = "running"
    /\ \A i \in 1..Len(tasks) : tasks[i].pc = "done"
    /\ request' = [request EXCEPT
                      !.pc = "idle",
                      !.output = written_rows(request.rows, request.results)]
    /\ UNCHANGED << now, redis_cache, tasks, finished, previous, non_app_vars >>

NextApi ==
    \/ ApiProcessFile
    \/ \E i \in TaskIds : ApiResolve(i)
    \/ ApiRespond
    \/ Tick

SpecApi == InitApp /\ [][NextApi]_vars

\* ======================================================================
\* The /api/process application of src/api/index.py: process_file resolves
\* the rows one after the other through search_web_info, which asks the
\* backend for a count and then either for a verification of it or, when
\* it got none, once more for a count.
\* ======================================================================

\* Lines 61-66: re.findall(r'\b\d{2,6}\b', text)[0].replace(',', ''), or
\* None without a match.  A match is a run of 2 to 6 digits with a word
\* boundary on both sides, i.e. with no letter, digit or underscore next
\* to it.
extract_number(text) ==
    LET word(k) == /\ k \in 1..Len(text)
                   /\ \/ isdigit(text[k])
                      \/ text[k] \in {"a", "e", "n", "o", "_"}
        matches == { m \in (1..Len(text)) \X (1..Len(text)) :
                       /\ m[2] - m[1] + 1 \in 2..6
                       /\ \A k \in m[1]..m[2] : isdigit(text[k])
                       /\ ~word(m[1] - 1)
                       /\ ~word(m[2] + 1) }
    IN  IF matches = {} THEN None
        ELSE LET m == CHOOSE x \in matches : \A y \in matches : x[1] <= y[1]
             IN  Text(SelectSeq(SubSeq(text, m[1], m[2]), LAMBDA c : c # ","))

\* str.upper()
upper(text) == IF text = "no" THEN "NO" ELSE text

\* The first cell of a row: a company, or the header word.
IndexCompanies == {"Acme", "Company"}

\* The texts the backend may answer a count question with: "250", "1,200",
\* "5", "00" and "none".
CountTexts ==
    { << "2", "5", "0" >>, << "1", ",", "2", "0", "0" >>, << "5" >>,
      << "0", "0" >>, << "n", "o", "n", "e" >> }

\* The texts it may answer the verification question with.
VerifyTexts == {"YES", "no", "UNKNOWN"}

\* One search_web_info(company, country) call: where it is, the count it
\* holds, its local confidence_response (line 208), whether its except
\* clause ran, and the dict it returned (None: nothing).
NewSearch(company) ==
    [ company |-> company, pc |-> "first", count |-> None,
      confidence_response |-> Unbound, raised |-> FALSE, ret |-> None ]

\* Lines 256-260: the dict search_web_info returns.
index_row(company, count, confidence) ==
    [ Company |-> company,
      EmployeeCount |-> IF count # None /\ count.chars # <<>> THEN count
                        ELSE Text(<< "0" >>),
      Confidence |-> confidence ]

index_except_medium(task) ==
    [task EXCEPT !.pc = "done", !.raised = TRUE,
                 !.ret = index_row(task.company, Text(<< "0" >>), "Medium")]

\* Lines 262-268: the except clause of search_web_info.
index_except(task) ==
    [task EXCEPT !.pc = "done", !.raised = TRUE,
                 !.ret = index_row(task.company, Text(<< "0" >>), "Low")]

\* Lines 316-332: the rows are read; search_web_info is called row by row.
IndexProcessFile ==
    /\ request.pc = "idle"
    /\ request.n < MaxUploads
    /\ \E n \in 1..MaxRows : \E rows \in [1..n -> IndexCompanies] :
         /\ request' = [n |-> request.n + 1, pc |-> "running", rows |-> rows,
                        results |-> <<>>, at |-> now,
                        output |-> [code |-> 0, rows |-> <<>>]]
         /\ tasks' = [i \in 1..n |-> NewSearch(rows[i])]
    /\ previous' = <<>>
    /\ finished' = <<>>
    /\ UNCHANGED << now, redis_cache, non_app_vars >>

\* A search_web_info call that ends: `if result: results.append(result)`.
IndexStep(i, task) ==
    /\ TaskStep(i, task)
    /\ request' = IF task.pc = "done" /\ task.ret # None
                  THEN [request EXCEPT !.results = Append(@, task.ret)]
                  ELSE request

\* Lines 127-174: the header word returns None; otherwise the first
\* question is asked and its answer read with extract_number.
IndexFirst(i) ==
    /\ TaskAt(i, "first")
    /\ \A k \in 1..(i - 1) : tasks[k].pc = "done"
    /\ IF lower(tasks[i].company) = "company"
       THEN IndexStep(i, [tasks[i] EXCEPT !.pc = "done"])
       ELSE \/ IndexStep(i, index_except(tasks[i]))
            \/ \E text \in CountTexts :
                 LET count == extract_number(text)
                 IN  IndexStep(i, [tasks[i] EXCEPT
                        !.count = count,
                        !.pc = IF count # None /\ count.chars # <<>>
                                  /\ count # Text(<< "0" >>)
                               THEN "verify" ELSE "backup"])
    /\ UNCHANGED << now, redis_cache, previous, non_app_vars >>

\* Lines 175-215: the count is put to the backend for verification.
IndexVerify(i) ==
    /\ TaskAt(i, "verify")
    /\ \/ IndexStep(i, index_except(tasks[i]))
       \/ \E text \in VerifyTexts :
            LET confidence_response == upper(strip(text))
                confidence == IF confidence_response = "YES" THEN "High"
                              ELSE IF confidence_response = "NO" THEN "Medium"
                              ELSE "Low"
            IN  IndexStep(i, [tasks[i] EXCEPT
                   !.pc = "done",
                   !.confidence_response = Str(confidence_response),
                   !.ret = index_row(tasks[i].company, tasks[i].count, confidence)])
    /\ UNCHANGED << now, redis_cache, previous, non_app_vars >>

\* Lines 216-254: without a count the question is asked once more.
IndexBackup(i) ==
    /\ TaskAt(i, "backup")
    /\ \/ IndexStep(i, index_except(tasks[i]))
       \/ \E text \in CountTexts :
            LET count == extract_number(text)
            IN  IndexStep(i, [tasks[i] EXCEPT
                   !.count = count, !.pc = "done",
                   !.ret = index_row(tasks[i].company, count, "Low")])
    /\ UNCHANGED << now, redis_cache, previous, non_app_vars >>

\* Lines 337-355: the CSV is written and sent.
IndexRespond ==
    /\ request.pc = "running"
    /\ \A i \in 1..Len(tasks) : tasks[i].pc = "done"
    /\ request' = [request EXCEPT !.pc = "idle"]
    /\ UNCHANGED << now, redis_cache, tasks, finished, previous, non_app_vars >>

NextIndex ==
    \/ IndexProcessFile
    \/ \E i \in TaskIds : IndexFirst(i)
    \/ \E i \in TaskIds : IndexVerify(i)
    \/ \E i \in TaskIds : IndexBackup(i)
    \/ IndexRespond

SpecIndex == InitApp /\ [][NextIndex]_vars

\* ======================================================================
\* review_employee_count of src/main.py called on its own, on first-pass
\* results of every confidence.
\* ======================================================================

\* The companies, counts, confidences and source lists of the first-pass
\* results handed to the reviewer.
ReviewCompanies == {"google", "grab", "acme"}
ReviewCounts == {None, IntVal(0), IntVal(10), IntVal(700), IntVal(3000)}
Confidences == {"LOW", "MEDIUM", "HIGH"}
ReviewSources == { <<>>, << "ADJUSTED" >>, << "MARKET REPORT" >> }

InitialResults ==
    { [employee_count |-> c, confidence |-> f, sources |-> s, explanation |-> <<>>] :
        c \in ReviewCounts, f \in Confidences, s \in ReviewSources }

\* The call's arguments as given, the initial_result dict as it is now (its
\* sources list is appended to in place), and what the call returned.
InitReview ==
    /\ Init
    /\ using_redis = FALSE
    /\ companies = << 1 >>
    /\ AppIdle
    /\ TextIdle
    /\ \E c \in ReviewCompanies, r \in InitialResults, w \in WebInfos :
         review_call = [company |-> c, given |-> r, initial_result |-> r,
                        web_info |-> w, out |-> None, again |-> None]

\* Lines 217-364: the call.
ReviewCall ==
    /\ review_call.out = None
    /\ LET rev == review_employee_count(review_call.company, country,
                                        review_call.initial_result,
                                        review_call.web_info)
       IN  review_call' =
             [review_call EXCEPT
                !.out = rev,
                !.initial_result = IF rev.same_object THEN @
                                   ELSE [@ EXCEPT !.sources = rev.result.sources]]
    /\ UNCHANGED << pipeline_vars, country, app_vars, text_call >>

\* The dict the first call returned is reviewed once more, with the same
\* company, country and web_info.
ReviewAgain ==
    /\ review_call.out # None
    /\ review_call.again = None
    /\ review_call' =
         [review_call EXCEPT
            !.again = review_employee_count(review_call.company, country,
                                            review_call.out.result,
                                            review_call.web_info)]
    /\ UNCHANGED << pipeline_vars, country, app_vars, text_call >>

NextReview == ReviewCall \/ ReviewAgain

SpecReview == InitReview /\ [][NextReview]_vars

\* ------------------------------- validate_employee_count on strings alone

\* Longest text handed to the function.
MaxTextLen == 3

\* Characters of the texts: two digits, the thousands separator, the
\* decimal point, a letter and a space.
TextChars == {"1", "2", ",", ".", "a", " "}

RECURSIVE TextsOfLen(_)
TextsOfLen(n) ==
    IF n = 0 THEN { <<>> }
    ELSE { Append(t, c) : t \in TextsOfLen(n - 1), c \in TextChars }

Texts == UNION { TextsOfLen(n) : n \in 0..MaxTextLen }

\* One call validate_employee_count(count) of src/main.py, or one call
\* extract_number(text) of src/api/index.py, with a str argument.
InitText ==
    /\ Init
    /\ using_redis = FALSE
    /\ country = "malaysia"
    /\ companies = << 1 >>
    /\ AppIdle
    /\ ReviewIdle
    /\ \E t \in Texts, fn \in {"validate_employee_count", "extract_number"} :
         text_call = [fn |-> fn, count |-> Text(t), out |-> Unbound]

\* Lines 366-390: the call.
ValidateCall ==
    /\ text_call.fn = "validate_employee_count"
    /\ text_call.out = Unbound
    /\ text_call' = [text_call EXCEPT !.out = validate_employee_count(text_call.count)]
    /\ UNCHANGED << pipeline_vars, country, app_vars, review_call >>

\* src/api/index.py lines 61-66: the call.
ExtractCall ==
    /\ text_call.fn = "extract_number"
    /\ text_call.out = Unbound
    /\ text_call' = [text_call EXCEPT !.out = extract_number(text_call.count.chars)]
    /\ UNCHANGED << pipeline_vars, country, app_vars, review_call >>

NextText == ValidateCall \/ ExtractCall

SpecText == InitText /\ [][NextText]_vars

\* ------------------------------------------------------------------ claims

Jobs == 1..Len(jobs)
IsError(entry) == "error" \in DOMAIN entry
HasError(entry, e) == IsError(entry) /\ entry.error = e

\* Every chunk of the batch was enqueued and every chunk job has returned.
AllJobsDone ==
    /\ pf.pc = "started"
    /\ \A j \in Jobs : jobs[j].pc = "done"

\* No entry of the batch stems from a store error.
NoStoreError ==
    \A j \in Jobs : \A k \in 1..Len(jobs[j].results) :
        ~HasError(jobs[j].results[k], "ConnectionError")

\* The companies of the batch that have an outcome.
CompaniesWithOutcome ==
    UNION { { jobs[j].results[k].company : k \in 1..Len(jobs[j].results) } : j \in Jobs }

\* The two retry-wrapped invocations a job makes for its current company,
\* each with the stage the job is in while the invocation runs.
Invocations ==
    { [call |-> jobs[j].call_a, running |-> jobs[j].pc = "analyze"] : j \in Jobs }
        \cup { [call |-> jobs[j].call_d, running |-> jobs[j].pc = "direct"] : j \in Jobs }

\* C1: process_company_batch returns exactly one result per input company,
\* the result at position i being for the company at position i, whatever
\* failed along the way (a store error included).
C1_OneResultPerCompany ==
    \A j \in Jobs :
        jobs[j].pc = "done" =>
            /\ Len(jobs[j].results) = Len(jobs[j].chunk)
            /\ \A k \in 1..Len(jobs[j].results) :
                   jobs[j].results[k].company = jobs[j].chunk[k]

\* C2: once the chunk jobs have returned, processed equals the number of
\* companies that got an outcome, successes and failures alike.
C2_ProcessedCountsOutcomes ==
    (AllJobsDone /\ NoStoreError) =>
        redis_batch.processed = Cardinality(CompaniesWithOutcome)

\* C3: once all chunk jobs of a batch have finished, the batch is
\* COMPLETED, also when companies of it failed.
C3_CompletedWhenJobsDone ==
    (AllJobsDone /\ NoStoreError) => redis_batch.status = "completed"

\* C4: under any interleaving of the chunk jobs, processed never decreases,
\* the status is set to completed at most once, and at most one job sees
\* processed reach total.
C4_MonotoneSingleCompletion ==
    [][ /\ redis_batch # Absent =>
              /\ redis_batch' # Absent
              /\ redis_batch'.processed >= redis_batch.processed
        /\ completed_sets' <= 1
        /\ Cardinality({ j \in 1..Len(jobs') :
                           /\ jobs'[j].processed # Unbound
                           /\ jobs'[j].processed.v >= redis_batch'.total }) <= 1
      ]_vars

\* C4 witness: a batch of two chunk jobs, both of which updated the
\* progress, has been completed.
C4_Witness ==
    /\ Len(jobs) = 2
    /\ \A j \in Jobs : jobs[j].processed # Unbound
    /\ completed_sets = 1
    /\ redis_batch.status = "completed"

\* C5: for a completed batch of more than one chunk, get_results returns
\* one result per company of the whole batch, in input order.
C5_ResultsOfWholeBatch ==
    (client.results.code = 200 /\ Len(companies) > batch_size) =>
        /\ Len(client.results.body) = Len(companies)
        /\ \A k \in 1..Len(client.results.body) :
               client.results.body[k].company = companies[k]

\* C6: a results request that found the status completed is never answered
\* with "Results not found".
C6_ResultsFoundWhenCompleted ==
    client.results.error # "Results not found"

\* C7: once a company of the batch ended with the rate limit exhausted, no
\* backend call is made for a later company and every later company is
\* recorded as rate-limited.
C7_RateLimitShortCircuit ==
    \A j \in Jobs : \A k \in 1..Len(jobs[j].results) :
        HasError(jobs[j].results[k], "RetryError") =>
            /\ k < jobs[j].i =>
                   /\ jobs[j].call_a.attempt_number = 0
                   /\ jobs[j].call_d.attempt_number = 0
            /\ \A m \in (k + 1)..Len(jobs[j].results) :
                   HasError(jobs[j].results[m], "RetryError")

\* C8: when the first stage of a company ended with the rate limit
\* exhausted, no outcome is recorded for that company unless the direct
\* estimate was called.
C8_DirectStageAttempted ==
    \A j \in Jobs :
        (jobs[j].call_a.outcome = "RetryError" /\ Len(jobs[j].results) >= jobs[j].i)
            => jobs[j].call_d.attempt_number >= 1

\* C8 witness: an outcome was recorded after the first stage had exhausted
\* the rate limit and the direct estimate had been called.
C8_Witness ==
    \E j \in Jobs :
        /\ jobs[j].call_a.outcome = "RetryError"
        /\ jobs[j].pc = "next"
        /\ Len(jobs[j].results) = jobs[j].i
        /\ jobs[j].call_d.attempt_number >= 1

\* C9: an invocation of call_openai_with_retry calls the backend at most 3
\* times, every call but its last failed with a rate-limit error, and after
\* the third rate-limit failure it has stopped with a failure.
C9_AtMostThreeAttempts ==
    \A inv \in Invocations :
        /\ inv.call.attempt_number <= 3
        /\ inv.call.slept >= inv.call.attempt_number - 1
        /\ inv.call.slept = 3 => (inv.call.outcome = "RetryError" /\ ~inv.running)
        /\ inv.call.outcome = "RetryError" => inv.call.slept = 3

\* C9 witness: an invocation has stopped after three rate-limit failures.
C9_Witness ==
    \E inv \in Invocations :
        /\ inv.call.outcome = "RetryError"
        /\ inv.call.attempt_number = 3

\* C10 as stated: an invocation that ended with an error other than a
\* rate-limit error has called the backend exactly once and never waited.
C10_ExactlyOneCall ==
    \A inv \in Invocations :
        inv.call.outcome = "Exception" =>
            /\ inv.call.attempt_number = 1
            /\ inv.call.slept = 0
            /\ inv.call.waited = 0

\* C10 amended: a call that fails with an error other than a rate-limit
\* error ends the invocation with that error: the invocation is no longer
\* running, and it slept and waited only for the rate-limit failures before
\* that call, not after it.
C10_NoRetryAfterOtherError ==
    \A inv \in Invocations :
        inv.call.raised = "Exception" =>
            /\ inv.call.outcome = "Exception"
            /\ ~inv.running
            /\ inv.call.slept = inv.call.attempt_number - 1
            /\ inv.call.waited = inv.call.attempt_number - 1

\* C10 witness: an invocation ended with another error on its second call,
\* after one rate-limit failure.
C10_Witness ==
    \E inv \in Invocations :
        /\ inv.call.outcome = "Exception"
        /\ inv.call.attempt_number = 2

\* ------------------------------------------- claims on the two applications

Tasks == 1..Len(tasks)
Done(i) == tasks[i].pc = "done"

\* The texts the applications return for a failed resolution.
ErrorOutcome(ret) == ret.v \in {"Error retrieving data", "Error: API call failed"}

\* Two calls are for the same (company, country) pair.
SamePair(a, b) == get_cache_key(a.company, country) = get_cache_key(b.company, country)

\* Call i of this upload comes, with the cache reachable, less than 24 hours
\* after call k of the upload before cached the backend's number.
SecondWithinTTL(k, i) ==
    /\ int_parses(previous[k].ret.v)
    /\ previous[k].calls = 1
    /\ SamePair(previous[k], tasks[i])
    /\ Done(i)
    /\ ~tasks[i].redis_error
    /\ request.at < previous[k].cached_at + TTL

C12_OneBackendCallPerPair ==
    \A i \in Tasks : \A j \in Tasks :
        ( /\ request.n = 1
          /\ i # j
          /\ SamePair(tasks[i], tasks[j])
          /\ \A t \in {i, j} :
                 /\ ~tasks[t].redis_error
                 /\ tasks[t].calls > 0 =>
                        (tasks[t].response # None /\ int_parses(tasks[t].response.v)) )
        => tasks[i].calls + tasks[j].calls <= 1

\* C13: when two uploads served within 24 hours have the same company, the
\* backend is asked exactly once for it by the two together.
C13_OneInvocationInTwoBatches ==
    \A k \in 1..Len(previous) : \A i \in Tasks :
        ( /\ SamePair(previous[k], tasks[i])
          /\ Done(i)
          /\ now < TTL )
        => previous[k].calls + tasks[i].calls = 1

\* C14: a call writes the cache only when the backend's answer is a number.
C14_OnlyNumbersAreCached ==
    \A i \in Tasks :
        tasks[i].cached_at # -1 => int_parses(tasks[i].response.v)

\* C15: a call during which the store raised does not end with an error
\* outcome when the backend has answered it.
C15_StoreErrorIsNoErrorOutcome ==
    \A i \in Tasks :
        (Done(i) /\ tasks[i].redis_error /\ ErrorOutcome(tasks[i].ret))
            => tasks[i].response = None

\* C16: for an empty or blank company name the outcome is an error and the
\* backend is not called.
C16_EmptyNameShortCircuits ==
    \A i \in Tasks :
        (Done(i) /\ strip(tasks[i].company) = "")
            => (ErrorOutcome(tasks[i].ret) /\ tasks[i].calls = 0)

\* C17: the list process_companies returns has, at position i, what the
\* get_employee_count call for companies[i] returned, whatever the order
\* in which the calls returned and whichever of them failed.
C17_ResultsInInputOrder ==
    (request.pc = "idle" /\ request.n >= 1) =>
        /\ Len(request.results) = Len(company_cells(request.rows))
        /\ \A i \in 1..Len(request.results) :
               /\ tasks[i].company = company_cells(request.rows)[i]
               /\ request.results[i] = tasks[i].ret

\* C17 witness: the second call returned before the first, one of the two
\* failed, and the list was returned.
C17_Witness ==
    /\ request.pc = "idle"
    /\ finished = << 2, 1 >>
    /\ request.results[1] = Str("Error retrieving data")
    /\ request.results[2] = Str("250")

\* ------------------------------------------------------ claims on the review

\* LOW < MEDIUM < HIGH
ConfidenceRank(confidence) ==
    IF confidence = "LOW" THEN 1 ELSE IF confidence = "MEDIUM" THEN 2 ELSE 3

AuditMarkers ==
    {"ADJUSTED", "LOCATION_KLCC", "LOCATION_BANGSAR", "LOCATION_CYBERJAYA",
     "LOCATION_PENANG", "HOME_MARKET", "FOREIGN_MARKET"}

\* The review call has returned; the result it returned.
Reviewed == review_call # Absent /\ review_call.out # None
ReviewResult == review_call.out.result

\* The sources the call appended to the list it was given.
AppendedSources ==
    SubSeq(ReviewResult.sources, Len(review_call.given.sources) + 1,
           Len(ReviewResult.sources))

\* C18: when the reviewer returns a count other than the one it was given,
\* the returned sources are the given ones followed by what the call
\* appended, and an audit marker is among the appended ones.
C18_ChangedCountHasMarker ==
    (Reviewed /\ ReviewResult.employee_count # review_call.given.employee_count) =>
        /\ Len(ReviewResult.sources) > Len(review_call.given.sources)
        /\ SubSeq(ReviewResult.sources, 1, Len(review_call.given.sources))
              = review_call.given.sources
        /\ \E k \in 1..Len(AppendedSources) : AppendedSources[k] \in AuditMarkers

\* C18 witness: a count that came with the source ADJUSTED was changed by
\* the market rule.
C18_Witness ==
    /\ Reviewed
    /\ review_call.given.sources = << "ADJUSTED" >>
    /\ review_call.given.employee_count = IntVal(3000)
    /\ ReviewResult.employee_count = IntVal(1500)
    /\ ReviewResult.sources = << "ADJUSTED", "FOREIGN_MARKET" >>

\* C19: when the reviewer fails on the first-pass result of a company, the
\* outcome recorded for the company is not an error and has the count,
\* confidence, sources and explanation of the first-pass result.
C19_ReviewFailureKeepsFirstPass ==
    [][ \A j \in 1..Len(jobs) :
          ( /\ jobs[j].pc = "review"
            /\ jobs'[j].pc # "review"
            /\ jobs[j].initial_result # Unbound
            /\ \A web_info \in WebInfos :
                   review_employee_count(CompanyName(jobs[j].chunk[jobs[j].i]), country,
                                         jobs[j].initial_result, web_info).failed )
          => LET entry == jobs'[j].results[Len(jobs'[j].results)]
                 first_pass == jobs[j].initial_result
             IN  /\ Len(jobs'[j].results) = Len(jobs[j].results) + 1
                 /\ ~IsError(entry)
                 /\ entry.company = jobs[j].chunk[jobs[j].i]
                 /\ entry.employee_count = first_pass.employee_count
                 /\ entry.confidence = first_pass.confidence
                 /\ entry.sources = first_pass.sources
                 /\ entry.explanation = first_pass.explanation
      ]_vars

\* C19 witness: outside Malaysia, where the reviewer has no range table, a
\* company's first-pass count of 700 was recorded as its outcome.
C19_Witness ==
    /\ country = "singapore"
    /\ \E j \in Jobs :
         /\ jobs[j].pc = "next"
         /\ Len(jobs[j].results) = jobs[j].i
         /\ ~IsError(jobs[j].results[jobs[j].i])
         /\ jobs[j].results[jobs[j].i].employee_count = IntVal(700)

\* C20: the reviewer returns a confidence that is not higher than the one
\* it was given.
C20_ConfidenceNotRaised ==
    Reviewed =>
        ConfidenceRank(ReviewResult.confidence)
            <= ConfidenceRank(review_call.given.confidence)

\* ------------------------------------------------- claims on the outcomes

\* C21: every result of process_company_batch that is not an error entry
\* carries an integer employee_count; null appears in error entries only.
C21_CountNullOnlyInErrors ==
    \A j \in Jobs : \A k \in 1..Len(jobs[j].results) :
        ~IsError(jobs[j].results[k]) => IsInt(jobs[j].results[k].employee_count)

\* The number a text shows first: its first run of digits, where a comma
\* between two digits is a thousands separator inside the run.
RECURSIVE number_run(_, _)
number_run(text, k) ==
    IF k > Len(text) THEN <<>>
    ELSE IF isdigit(text[k]) THEN << text[k] >> \o number_run(text, k + 1)
    ELSE IF text[k] = "," /\ k < Len(text) /\ isdigit(text[k + 1])
    THEN number_run(text, k + 1)
    ELSE <<>>

FirstNumber(text) ==
    LET s == CHOOSE k \in 1..Len(text) :
                 isdigit(text[k]) /\ \A m \in 1..(k - 1) : ~isdigit(text[m])
    IN  int_of_digits(number_run(text, s))

HasDigit(text) == \E k \in 1..Len(text) : isdigit(text[k])

\* C22: for every text with at least one digit validate_employee_count
\* returns the integer of the first run of digits (thousands separators
\* inside the run ignored); digits of later runs do not contribute.
C22_FirstRunOfDigits ==
    ( /\ text_call # Absent
      /\ text_call.fn = "validate_employee_count"
      /\ text_call.out # Unbound
      /\ HasDigit(text_call.count.chars) )
        => text_call.out = IntVal(FirstNumber(text_call.count.chars))

\* C23: in the src/api/index.py pipeline the row of a company whose
\* resolution failed with an error differs, in the count or the confidence
\* column, from the row of a company for which the backend answered both
\* questions without giving a count.
C23_ErrorRowDiffersFromNoCountRow ==
    \A i, k \in 1..Len(tasks) :
        ( /\ tasks[i].pc = "done" /\ tasks[i].raised
          /\ tasks[k].pc = "done" /\ ~tasks[k].raised
          /\ tasks[k].ret # None /\ tasks[k].count = None )
        => << tasks[i].ret.EmployeeCount, tasks[i].ret.Confidence >>
             # << tasks[k].ret.EmployeeCount, tasks[k].ret.Confidence >>

\* C24: when a chunk job of an asynchronous batch met a store error while
\* it updated the progress, the batch ends with status "failed" rather
\* than staying "processing".
C24_StoreErrorFailsBatch ==
    (using_redis /\ AllJobsDone /\ ~NoStoreError) => redis_batch.status = "failed"

\* C27: one get_employee_count call makes at most one backend call, also
\* when the cache store fails on the read or on the write.
C27_OneBackendCallPerCall ==
    \A i \in 1..Len(tasks) : tasks[i].calls <= 1

\* C28: in every state of an asynchronous batch, under every interleaving
\* of its chunk jobs, 0 <= processed <= total, and every progress that
\* get_status reports lies between 0% and 100%.
C28_ProcessedWithinTotal ==
    /\ redis_batch # Absent =>
          /\ 0 <= redis_batch.processed
          /\ redis_batch.processed <= redis_batch.total
    /\ client.status.code = 200 =>
          /\ 0 <= client.status.body.progress
          /\ client.status.body.progress <= 10000

\* Two chunk jobs have advanced the counter to the total, and get_status
\* reported 100%.
C28_Witness ==
    /\ Len(jobs) = 2
    /\ redis_batch # Absent
    /\ redis_batch.total = MaxCompanies
    /\ redis_batch.processed = redis_batch.total
    /\ client.status.code = 200
    /\ client.status.body.progress = 10000

\* The call that resolved the company of output row k: the rows with a
\* company are resolved in the order of the file.
OwnTask(k) ==
    Cardinality({ m \in 1..k : has_company(request.output.rows[m].row) })

\* C25: process_file answers an upload with the CSV, short rows or not,
\* and every output row that has a company carries the estimate computed
\* for that row's own company.
C25_RowCarriesOwnEstimate ==
    (request.pc = "idle" /\ request.n >= 1) =>
        /\ request.output.code = 200
        /\ \A k \in 1..Len(request.output.rows) :
               has_company(request.output.rows[k].row) =>
                   request.output.rows[k].appended = tasks[OwnTask(k)].ret

\* The call with the locals that stem from an earlier company unassigned.
OwnAnswersOnly(job) ==
    [job EXCEPT
       !.initial_result = IF "initial_result" \in job.fresh THEN @ ELSE Unbound,
       !.employee_count = IF "employee_count" \in job.fresh THEN @ ELSE Unbound]

\* C26: the entry process_company_batch records for a company is the one
\* it records from the backend answers for that company alone, whatever
\* companies were processed before it in the batch.
C26_ResultFromOwnAnswers ==
    [][ \A j \in Jobs :
          (jobs[j].pc = "review" /\ jobs'[j].pc # "review") =>
              \E w \in WebInfos :
                  /\ jobs'[j] = review_and_append(jobs[j], country, w, using_redis)
                  /\ jobs'[j].results[Len(jobs'[j].results)] =
                       LET alone == review_and_append(OwnAnswersOnly(jobs[j]), country,
                                                     w, using_redis)
                       IN  alone.results[Len(alone.results)] ]_vars

\* C29: a recorded result has was_adjusted true exactly when the reviewer
\* changed the count; a first-pass result the review left unchanged is not
\* reported as adjusted, whatever sources the first pass supplied.
C29_AdjustedIffCountChanged ==
    Reviewed =>
        ( result_entry(review_call.company, ReviewResult).was_adjusted
            <=> ReviewResult.employee_count # review_call.given.employee_count )

RECURSIVE ChunksUpTo(_)
ChunksUpTo(k) == IF k = 0 THEN <<>> ELSE ChunksUpTo(k - 1) \o jobs[k].chunk

\* C31: once the asynchronous path of process_file has enqueued the jobs
\* of a batch of n >= 1 companies, there are exactly ceil(n / batch_size)
\* chunk jobs, every chunk has at most batch_size companies, the chunks in
\* enqueue order make up the input list, and the stored total is n.
C31_ChunksPartitionTheList ==
    (using_redis /\ pf.pc \in {"hset_jobs", "started"}) =>
        /\ Len(jobs) = (Len(companies) + batch_size - 1) \div batch_size
        /\ \A j \in Jobs : Len(jobs[j].chunk) \in 1..batch_size
        /\ ChunksUpTo(Len(jobs)) = companies
        /\ redis_batch.total = Len(companies)

\* A list of MaxCompanies companies went out as one full chunk and one
\* chunk with the rest.
C31_Witness ==
    /\ using_redis
    /\ pf.pc = "started"
    /\ Len(companies) = MaxCompanies
    /\ Len(jobs) = 2
    /\ Len(jobs[1].chunk) = batch_size
    /\ Len(jobs[2].chunk) = MaxCompanies - batch_size

\* C32: reviewing the result of a review once more, with the same company,
\* country and evidence, returns the count, the confidence and the sources
\* the first review returned.
C32_ReviewIdempotent ==
    (review_call # Absent /\ review_call.again # None) =>
        /\ review_call.again.result.employee_count = ReviewResult.employee_count
        /\ review_call.again.result.confidence = ReviewResult.confidence
        /\ review_call.again.result.sources = ReviewResult.sources

\* The first review changed the count and appended its marker, and its
\* result was reviewed once more.
C32_Witness ==
    /\ review_call # Absent
    /\ review_call.again # None
    /\ ~review_call.again.same_object
    /\ ReviewResult.employee_count # review_call.given.employee_count
    /\ Len(ReviewResult.sources) > Len(review_call.given.sources)

\* The digits of the number a text shows first.
FirstNumberDigits(text) ==
    number_run(text, CHOOSE k \in 1..Len(text) :
                         isdigit(text[k]) /\ \A m \in 1..(k - 1) : ~isdigit(text[m]))

\* C33: for a text with a digit extract_number returns the first number of
\* the text with thousands separators ignored: the whole number when it is
\* written with a separator, and the digit when it has a single digit.
C33_FirstNumberExtracted ==
    ( /\ text_call # Absent
      /\ text_call.fn = "extract_number"
      /\ text_call.out # Unbound
      /\ HasDigit(text_call.count.chars) )
        => text_call.out = Text(FirstNumberDigits(text_call.count.chars))

\* The search_web_info calls of the request that returned a dict.
ReturnedDict == { i \in 1..Len(tasks) : tasks[i].pc = "done" /\ tasks[i].ret # None }

====
